---- MODULE Spec2Model ----
(***************************************************************************)
(* Model of the analysis job lifecycle of the face-analysis backend:       *)
(*   backend/routers/upload.py    upload_images                            *)
(*   backend/routers/analyze.py   start_analysis, run_analysis_background, *)
(*                                get_result                               *)
(*   backend/services/pipeline_service.py  PipelineService                 *)
(*   backend/database.py          Analysis                                 *)
(* Request handlers are `async def` without an await, so each runs as one  *)
(* atomic step of the event loop.  run_analysis_background is a plain      *)
(* function: Starlette runs it in a worker thread after the response, so   *)
(* its steps interleave with request handlers and with other tasks.        *)
(***************************************************************************)
EXTENDS Integers, Sequences, FiniteSets, TLC

VARIABLES
    db,           \* the analyses table: analysis_id -> row
    execs,        \* the background tasks that start_analysis has added
    pipeline,     \* PipelineService._pipeline: "none" or "loaded"
    constructed,  \* the number of ImagePipeline objects constructed so far
    chat_logs,    \* the chat_logs table, in the order of insertion
    llm_call      \* the request that is waiting for the answer of the LLM

\* the tables and the request of chat.py
chatvars == <<chat_logs, llm_call>>

vars == <<db, execs, pipeline, constructed, chatvars>>

----------------------------------------------------------------------------
(* Bounds of the model *)

MaxExec == 2      \* background tasks that start may schedule
MaxImages == 2    \* files in one upload
MaxChats == 1     \* rows of the chat_logs table

----------------------------------------------------------------------------
(* Values *)

\* the analysis ids of the model; upload creates them in this order
JobIds == {1, 2}

\* file names a client may upload; c.txt has no allowed extension
FileNames == {"a.JPG", "c.txt"}

\* upload.py:23
ALLOWED_EXTENSIONS == {".jpg", ".jpeg", ".png", ".bmp", ".webp"}

\* Path(filename).suffix.lower() for the file names of the model
Suffix(filename) ==
    CASE filename = "a.JPG" -> ".jpg"
      [] filename = "b.png" -> ".png"
      [] filename = "c.txt" -> ".txt"
      [] OTHER -> ""

\* upload.py:26-29
validate_image(filename) == Suffix(filename) \in ALLOWED_EXTENSIONS

\* the request bodies of POST /api/upload
Uploads == UNION {[1..n -> FileNames] : n \in 0..MaxImages}

\* the request bodies with two allowed file names, for the specification
\* that follows what upload stores
NamedFiles == {"a.JPG", "b.png", "c.txt"}

NamedUploads == UNION {[1..n -> NamedFiles] : n \in 0..MaxImages}

\* str.lower() on the gender labels of the model
Lower(s) ==
    CASE s = "Male" -> "male"
      [] s = "Female" -> "female"
      [] OTHER -> s

\* face records as ImagePipeline.process_image returns them (bbox and
\* confidence are not read by the aggregation)
Face(g, a) == [gender |-> g, age_group |-> a]

\* the results one process_image call may return
FaceBatches ==
    { <<Face("Male", "20s"), Face("unknown", "senior")>> }

\* what can happen to one image of the manifest inside analyze_images:
\*   missing   os.path.exists(img_path) is False
\*   initfail  ImagePipeline(device=...) raises in the pipeline property
\*   error     process_image raises
\*   ok        process_image returns faces
\*   counting  process_image returns faces and an exception is raised while
\*             the last of them is counted, after total_faces += 1
Outcome(k, f) == [kind |-> k, faces |-> f]

Outcomes(pl) ==
    {Outcome("missing", <<>>), Outcome("error", <<>>)}
        \cup {Outcome("ok", b) : b \in FaceBatches}
        \cup (IF pl = "none" THEN {Outcome("initfail", <<>>)} ELSE {})

\* more results of process_image, for the specification of the aggregation:
\* every gender label and age bucket, labels in both cases, and labels that
\* are not counted
FaceLists ==
    FaceBatches \cup
        { <<>>,
          <<Face("Male", "10s")>>,
          <<Face("Female", "40_plus")>>,
          <<Face("female", "20s"), Face("Female", "30s")>>,
          <<Face("unknown", "40_plus"), Face("male", "senior")>> }

AggregationOutcomes(pl) ==
    {Outcome("missing", <<>>), Outcome("error", <<>>)}
        \cup {Outcome("ok", b) : b \in FaceLists}
        \cup (IF pl = "none" THEN {Outcome("initfail", <<>>)} ELSE {})

\* the results of the specification that follows an exception in the
\* counting loop: those of AggregationOutcomes and the ones whose counting
\* raises
CountingOutcomes(pl) ==
    AggregationOutcomes(pl) \cup {Outcome("counting", b) : b \in FaceBatches}

\* str(e) of an exception that escapes analyze_images
Reasons == {"fatal"}

----------------------------------------------------------------------------
(* JSON documents are functions from keys to values *)

EmptyJson == [k \in {} |-> 0]

Get(d, k, default) == IF k \in DOMAIN d THEN d[k] ELSE default

\* pipeline_service.py:45-49
NewAggregated ==
    [total_faces |-> 0,
     gender |-> [g \in {"male", "female"} |-> 0],
     age_group |-> [a \in {"10s", "20s", "30s", "40_plus"} |-> 0]]

\* CountFace adding to total_faces only the faces whose gender is counted
CountFaceTotalIfGender(agg, face) ==
    [total_faces |-> IF Lower(face.gender) \in DOMAIN agg.gender
                     THEN agg.total_faces + 1
                     ELSE agg.total_faces,
     gender |-> IF Lower(face.gender) \in DOMAIN agg.gender
                THEN [agg.gender EXCEPT ![Lower(face.gender)] = @ + 1]
                ELSE agg.gender,
     age_group |-> IF face.age_group \in DOMAIN agg.age_group
                   THEN [agg.age_group EXCEPT ![face.age_group] = @ + 1]
                   ELSE agg.age_group]

\* CountFace comparing the gender label as the engine wrote it
CountFaceCaseSensitive(agg, face) ==
    [total_faces |-> agg.total_faces + 1,
     gender |-> IF face.gender \in DOMAIN agg.gender
                THEN [agg.gender EXCEPT ![face.gender] = @ + 1]
                ELSE agg.gender,
     age_group |-> IF face.age_group \in DOMAIN agg.age_group
                   THEN [agg.age_group EXCEPT ![face.age_group] = @ + 1]
                   ELSE agg.age_group]

\* pipeline_service.py:60-70, one face
CountFace(agg, face) ==
    LET gender == Lower(face.gender)
        age_group == face.age_group
    IN  [total_faces |-> agg.total_faces + 1,
         gender |-> IF gender \in DOMAIN agg.gender
                    THEN [agg.gender EXCEPT ![gender] = @ + 1]
                    ELSE agg.gender,
         age_group |-> IF age_group \in DOMAIN agg.age_group
                       THEN [agg.age_group EXCEPT ![age_group] = @ + 1]
                       ELSE agg.age_group]

\* pipeline_service.py:59-70, the loop over face_results
RECURSIVE CountFaces(_, _)
CountFaces(agg, faces) ==
    IF faces = <<>> THEN agg
    ELSE CountFaces(CountFace(agg, Head(faces)), Tail(faces))

\* pipeline_service.py:58-69 left by an exception in the iteration of the
\* last face, at line 62: the faces before it are counted and line 59 has
\* run for it; aggregated is updated in place, so the counts stay
CountFacesRaising(agg, faces) ==
    LET counted == CountFaces(agg, SubSeq(faces, 1, Len(faces) - 1))
    IN  [counted EXCEPT !.total_faces = @ + 1]

\* ImageStep with an image that raises taking the counts so far with it
ImageStepErrorResets(agg, out) ==
    CASE out.kind = "missing" -> [aggregated |-> agg, raised |-> FALSE]
      [] out.kind = "initfail" -> [aggregated |-> NewAggregated, raised |-> FALSE]
      [] out.kind = "error" -> [aggregated |-> NewAggregated, raised |-> FALSE]
      [] OTHER -> [aggregated |-> CountFaces(agg, out.faces), raised |-> FALSE]

\* ImageStep with the existence test raising for a missing file, outside the
\* per-image try
ImageStepMissingRaises(agg, out) ==
    CASE out.kind = "missing" -> [aggregated |-> agg, raised |-> TRUE]
      [] out.kind = "initfail" -> [aggregated |-> agg, raised |-> FALSE]
      [] out.kind = "error" -> [aggregated |-> agg, raised |-> FALSE]
      [] OTHER -> [aggregated |-> CountFaces(agg, out.faces), raised |-> FALSE]

\* pipeline_service.py:51-73, the loop body for one image: the new
\* accumulator, and whether an exception leaves analyze_images
ImageStep(agg, out) ==
    CASE out.kind = "missing" -> [aggregated |-> agg, raised |-> FALSE]
      [] out.kind = "initfail" -> [aggregated |-> agg, raised |-> FALSE]
      [] out.kind = "error" -> [aggregated |-> agg, raised |-> FALSE]
      [] out.kind = "counting" ->
            [aggregated |-> CountFacesRaising(agg, out.faces), raised |-> FALSE]
      [] OTHER -> [aggregated |-> CountFaces(agg, out.faces), raised |-> FALSE]

\* pipeline_service.py:26-32, the lazily loaded pipeline after the image
PipelineAfter(pl, out) ==
    IF out.kind \in {"ok", "error", "counting"} THEN "loaded" ELSE pl

\* pipeline_service.py:29-31: the ImagePipeline objects constructed when the
\* pipeline goes from pl to after
Built(pl, after) == IF pl = "none" /\ after = "loaded" THEN 1 ELSE 0

\* the outcomes of the n images of one analyze_images call, in manifest
\* order: the pipeline can fail to load only while it has not been loaded
OutcomeSeqs(n, pl) ==
    {outs \in [1..n -> Outcomes("none")] :
        \A k \in 1..n :
            outs[k].kind = "initfail" =>
                /\ pl = "none"
                /\ \A m \in 1..(k - 1) : outs[m].kind \in {"missing", "initfail"}}

\* pipeline_service.py:44-75, the loop of analyze_images from accumulator acc
\* on: the final accumulator, whether an exception left the loop, and the
\* pipeline
RECURSIVE FoldImages(_, _)
FoldImages(acc, outs) ==
    IF outs = <<>> \/ acc.raised THEN acc
    ELSE LET step == ImageStep(acc.aggregated, Head(outs)) IN
         FoldImages([aggregated |-> step.aggregated,
                     raised |-> step.raised,
                     pipeline |-> PipelineAfter(acc.pipeline, Head(outs))],
                    Tail(outs))

\* pipeline_service.py:34-75
analyze_images(pl, outs) ==
    FoldImages([aggregated |-> NewAggregated, raised |-> FALSE, pipeline |-> pl], outs)

----------------------------------------------------------------------------
(* The analyses table *)

\* datetime.utcnow() when a row is written.  Time is abstracted to the
\* number of writes the row has seen: every write is later than the one
\* before it, and timestamps of different rows are not compared.
UtcNow(analysis) == analysis.updated_at + 1

\* database.py:43-53 and upload.py:75-80
NewAnalysis(paths) ==
    [status |-> "pending",
     json_result |-> EmptyJson,
     image_paths |-> paths,
     created_at |-> 0,
     updated_at |-> 0]

\* SavedPaths with the files saved last to first
SavedPathsReversed(id, files) ==
    [i \in DOMAIN files |-> <<id, files[Len(files) + 1 - i]>>]

\* upload.py:59, 67, 72: str(UPLOAD_DIR / analysis_id / file.filename)
SavedPaths(id, files) == [i \in DOMAIN files |-> <<id, files[i]>>]

\* Path(path).name of a saved path
FileName(path) == path[2]

\* upload.py:56: uuid4 gives an id no analysis has
FreshId == Cardinality(DOMAIN db) + 1

Init ==
    /\ db = [j \in {} |-> 0]
    /\ execs = <<>>
    /\ pipeline = "none"
    /\ constructed = 0
    /\ chat_logs = <<>>
    /\ llm_call = <<>>

\* an HTTP response: the status code and the "status" of its body
Response(code, status) == [code |-> code, status |-> status]

\* UploadRejected without the test for an empty request
UploadRejectedAllowsEmpty(files) ==
    \E i \in DOMAIN files : ~validate_image(files[i])

\* upload.py:44-53
UploadRejected(files) ==
    files = <<>> \/ \E i \in DOMAIN files : ~validate_image(files[i])

\* upload.py:44-53 and 82-86, the response of upload_images
UploadResponse(files) ==
    IF UploadRejected(files)
    THEN [code |-> 400, analysis_id |-> 0, image_count |-> 0]
    ELSE [code |-> 200, analysis_id |-> FreshId, image_count |-> Len(files)]

\* upload.py:32-95
UploadImages(files) ==
    IF UploadRejected(files)
    THEN UNCHANGED vars
    ELSE /\ FreshId \in JobIds
         /\ db' = db @@ (FreshId :> NewAnalysis(SavedPaths(FreshId, files)))
         /\ UNCHANGED <<execs, pipeline, constructed, chatvars>>

----------------------------------------------------------------------------
(* POST /api/analyze/{analysis_id} *)

\* StartDecision refusing every analysis that is not pending
StartDecisionNoRestart(analysis) ==
    IF analysis.status \in {"processing", "failed"} THEN "conflict"
    ELSE IF analysis.status = "completed" THEN "completed"
    ELSE IF analysis.image_paths = <<>> THEN "noimages"
    ELSE "accepted"

\* StartDecision without the test for a completed analysis
StartDecisionRerunsCompleted(analysis) ==
    IF analysis.status = "processing" THEN "conflict"
    ELSE IF analysis.image_paths = <<>> THEN "noimages"
    ELSE "accepted"

\* analyze.py:93-107, what start_analysis decides from the row it read
StartDecision(analysis) ==
    IF analysis.status = "processing" THEN "conflict"
    ELSE IF analysis.status = "completed" THEN "completed"
    ELSE IF analysis.image_paths = <<>> THEN "noimages"
    ELSE "accepted"

\* NewTask with the first image of the manifest only
NewTaskFirstImageOnly(j, image_paths) ==
    [job |-> j,
     image_paths |-> SubSeq(image_paths, 1, 1),
     pc |-> "scheduled",
     i |-> 1,
     aggregated |-> NewAggregated,
     faces |-> <<>>,
     initfail |-> FALSE,
     outs |-> <<>>]

\* analyze.py:19, 110: the task as add_task records it
NewTask(j, image_paths) ==
    [job |-> j,
     image_paths |-> image_paths,
     pc |-> "scheduled",
     i |-> 1,
     aggregated |-> NewAggregated,
     faces |-> <<>>,
     initfail |-> FALSE,
     outs |-> <<>>]

\* the task after run_analysis_background has returned: its locals are gone
Returned(task) ==
    [NewTask(task.job, task.image_paths) EXCEPT !.pc = "done"]

\* analyze.py:88-116, the response of start_analysis
StartResponse(j) ==
    IF j \notin DOMAIN db THEN Response(404, "")
    ELSE CASE StartDecision(db[j]) = "conflict" -> Response(400, "")
           [] StartDecision(db[j]) = "completed" -> Response(200, "completed")
           [] StartDecision(db[j]) = "noimages" -> Response(400, "")
           [] OTHER -> Response(200, "processing")

\* StartAnalysis creating the analysis it does not find
StartAnalysisCreatesJob(j) ==
    IF j \notin DOMAIN db
    THEN /\ db' = db @@ (j :> NewAnalysis(<<>>))
         /\ UNCHANGED <<execs, pipeline, constructed, chatvars>>
    ELSE IF StartDecision(db[j]) = "accepted"
    THEN /\ Len(execs) < MaxExec
         /\ execs' = Append(execs, NewTask(j, db[j].image_paths))
         /\ UNCHANGED <<db, pipeline, constructed, chatvars>>
    ELSE UNCHANGED vars

\* StartAnalysis running the analysis itself before it answers
StartAnalysisBlocking(j) ==
    IF j \in DOMAIN db /\ StartDecision(db[j]) = "accepted"
    THEN /\ Len(execs) < MaxExec
         /\ execs' = Append(execs, Returned(NewTask(j, db[j].image_paths)))
         /\ db' = [db EXCEPT ![j] = [@ EXCEPT !.status = "completed",
                                             !.json_result = NewAggregated,
                                             !.updated_at = UtcNow(db[j])]]
         /\ UNCHANGED <<pipeline, constructed, chatvars>>
    ELSE UNCHANGED vars

\* analyze.py:78-116: only an accepted call changes anything, it adds the
\* background task
StartAnalysis(j) ==
    IF j \in DOMAIN db /\ StartDecision(db[j]) = "accepted"
    THEN /\ Len(execs) < MaxExec
         /\ execs' = Append(execs, NewTask(j, db[j].image_paths))
         /\ UNCHANGED <<db, pipeline, constructed, chatvars>>
    ELSE UNCHANGED vars

----------------------------------------------------------------------------
(* run_analysis_background *)

\* Commit without onupdate: the UPDATE leaves updated_at as it was
CommitKeepsTimestamp(old, new) == new

\* a commit of the row: the UPDATE is emitted only when a column changed,
\* and then onupdate refreshes updated_at (database.py:53)
Commit(old, new) ==
    IF new = old THEN old ELSE [new EXCEPT !.updated_at = UtcNow(old)]

\* analyze.py:30-31
MarkProcessing(analysis) ==
    Commit(analysis, [analysis EXCEPT !.status = "processing"])

\* analyze.py:38-41
StoreResult(analysis, result) ==
    [analysis EXCEPT !.json_result = result,
                     !.status = "completed",
                     !.updated_at = UtcNow(analysis)]

\* StoreFailure without the write: the handler finds the row and leaves it
StoreFailureLost(analysis, reason) == analysis

\* analyze.py:45-49
StoreFailure(analysis, reason) ==
    Commit(analysis,
           [analysis EXCEPT !.status = "failed",
                            !.json_result = [error |-> reason]])

\* Begin with the task returning once the row is marked
BeginAndReturn(e) ==
    /\ execs[e].pc = "scheduled"
    /\ LET j == execs[e].job IN
       db' = [db EXCEPT ![j] = MarkProcessing(@)]
    /\ execs' = [execs EXCEPT ![e] = Returned(@)]
    /\ UNCHANGED <<pipeline, constructed, chatvars>>

\* analyze.py:23-31: the task starts, in a worker thread
Begin(e) ==
    /\ execs[e].pc = "scheduled"
    /\ LET j == execs[e].job IN
       IF j \notin DOMAIN db
       THEN /\ execs' = [execs EXCEPT ![e] = Returned(@)]
            /\ UNCHANGED db
       ELSE /\ db' = [db EXCEPT ![j] = MarkProcessing(@)]
            /\ execs' = [execs EXCEPT ![e].pc = "analyzing"]
    /\ UNCHANGED <<pipeline, constructed, chatvars>>

\* analyze.py:33-41, and 43-49 when analyze_images raises: the pipeline runs
\* over the manifest and the result is stored.  analyze_images works on
\* locals and on the shared pipeline only, so the call and the commit that
\* follows it are one step.
RunPipeline(e, outs) ==
    /\ execs[e].pc = "analyzing"
    /\ execs[e].i = 1
    /\ outs \in OutcomeSeqs(Len(execs[e].image_paths), pipeline)
    /\ LET run == analyze_images(pipeline, outs)
           j == execs[e].job
       IN  /\ db' = [db EXCEPT ![j] = IF run.raised
                                      THEN StoreFailure(@, "fatal")
                                      ELSE StoreResult(@, run.aggregated)]
           /\ pipeline' = run.pipeline
           /\ constructed' = constructed + Built(pipeline, run.pipeline)
    /\ UNCHANGED chatvars
    /\ execs' = [execs EXCEPT ![e] = Returned(@)]

\* analyze.py:34-35 with pipeline_service.py:51-73: one image of the loop,
\* for the specification that follows the loop image by image
ProcessImage(e, out) ==
    /\ execs[e].pc = "analyzing"
    /\ execs[e].i <= Len(execs[e].image_paths)
    /\ out.kind = "initfail" => pipeline = "none"
    /\ LET step == ImageStep(execs[e].aggregated, out) IN
       IF step.raised
       THEN LET j == execs[e].job IN
            /\ db' = [db EXCEPT ![j] = StoreFailure(@, "fatal")]
            /\ execs' = [execs EXCEPT ![e] = Returned(@)]
       ELSE /\ execs' = [execs EXCEPT ![e].aggregated = step.aggregated,
                                      ![e].i = @ + 1,
                                      ![e].faces = @ \o out.faces,
                                      ![e].initfail = @ \/ out.kind = "initfail",
                                      ![e].outs = Append(@, out)]
            /\ UNCHANGED db
    /\ pipeline' = PipelineAfter(pipeline, out)
    /\ constructed' = constructed + Built(pipeline, PipelineAfter(pipeline, out))
    /\ UNCHANGED chatvars

\* pipeline_service.py:29: an image of the task reaches self.pipeline while
\* _pipeline is None: the thread goes on to construct the ImagePipeline,
\* and other threads run while the models are loaded
EnterPipeline(e) ==
    /\ execs[e].pc = "analyzing"
    /\ execs[e].i <= Len(execs[e].image_paths)
    /\ pipeline = "none"
    /\ execs' = [execs EXCEPT ![e].pc = "loading"]
    /\ UNCHANGED <<db, pipeline, constructed, chatvars>>

\* pipeline_service.py:31-32: ImagePipeline(device=...) has returned and is
\* assigned to _pipeline, whatever _pipeline holds by now
FinishLoading(e) ==
    /\ execs[e].pc = "loading"
    /\ pipeline' = "loaded"
    /\ constructed' = constructed + 1
    /\ execs' = [execs EXCEPT ![e].pc = "analyzing"]
    /\ UNCHANGED <<db, chatvars>>

\* pipeline_service.py:31 raises: the image is skipped (71-72) and _pipeline
\* stays as it is
LoadingFails(e) ==
    /\ execs[e].pc = "loading"
    /\ execs' = [execs EXCEPT ![e].pc = "analyzing",
                              ![e].i = @ + 1,
                              ![e].initfail = TRUE,
                              ![e].outs = Append(@, Outcome("initfail", <<>>))]
    /\ UNCHANGED <<db, pipeline, constructed, chatvars>>

\* one image of the loop when the lazy load is a step of its own: the file
\* is missing, or self.pipeline returns the loaded pipeline and
\* process_image runs
ProcessLoaded(e, out) ==
    /\ out.kind \in {"missing", "ok", "error"}
    /\ out.kind = "missing" \/ pipeline = "loaded"
    /\ ProcessImage(e, out)

\* analyze.py:35-41: analyze_images has returned; the result is stored
Complete(e) ==
    /\ execs[e].pc = "analyzing"
    /\ execs[e].i > Len(execs[e].image_paths)
    /\ LET j == execs[e].job IN
       db' = [db EXCEPT ![j] = StoreResult(@, execs[e].aggregated)]
    /\ execs' = [execs EXCEPT ![e] = Returned(@)]
    /\ UNCHANGED <<pipeline, constructed, chatvars>>

\* Fail writing the failure on every analysis of the table
FailMarksEveryRow(e, reason) ==
    /\ execs[e].pc = "analyzing"
    /\ db' = [j \in DOMAIN db |-> StoreFailure(db[j], reason)]
    /\ execs' = [execs EXCEPT ![e] = Returned(@)]
    /\ UNCHANGED <<pipeline, constructed, chatvars>>

\* analyze.py:43-49: an exception leaves lines 34-38 outside the per-image
\* try (the print of pipeline_service.py:53 or :73 failing, json.dumps,
\* MemoryError) and the handler records it
Fail(e, reason) ==
    /\ execs[e].pc = "analyzing"
    /\ LET j == execs[e].job IN
       db' = [db EXCEPT ![j] = StoreFailure(@, reason)]
    /\ execs' = [execs EXCEPT ![e] = Returned(@)]
    /\ UNCHANGED <<pipeline, constructed, chatvars>>

----------------------------------------------------------------------------
(* GET /api/result/{analysis_id} *)

\* analyze.py:130-140 with schemas/models.py:12-33
ResultOf(analysis) ==
    IF analysis.status = "completed"
    THEN << [total_faces |-> Get(analysis.json_result, "total_faces", 0),
             gender |-> Get(analysis.json_result, "gender", NewAggregated.gender),
             age_group |-> Get(analysis.json_result, "age_group",
                               NewAggregated.age_group)] >>
    ELSE <<>>

\* analyze.py:125-148, the response of get_result; the message is
\* f"Status: {analysis.status}"
GetResultResponse(j) ==
    IF j \notin DOMAIN db
    THEN [code |-> 404, status |-> "", result |-> <<>>, message |-> <<>>]
    ELSE [code |-> 200, status |-> db[j].status, result |-> ResultOf(db[j]),
          message |-> <<"Status: ", db[j].status>>]

\* GetResult with a write of the row it read
GetResultTouches(j) ==
    /\ GetResultResponse(j).code \in {200, 404}
    /\ IF j \in DOMAIN db
       THEN db' = [db EXCEPT ![j].updated_at = @ + 1]
       ELSE UNCHANGED db
    /\ UNCHANGED <<execs, pipeline, constructed, chatvars>>

\* analyze.py:119-148
GetResult(j) ==
    /\ GetResultResponse(j).code \in {200, 404}
    /\ UNCHANGED vars

----------------------------------------------------------------------------
(* GET /api/result/{analysis_id}/raw *)

\* analyze.py:157-165, the response of get_raw_result; the detail of the 400
\* is f"Analysis not completed. Status: {analysis.status}"
GetRawResultResponse(j) ==
    IF j \notin DOMAIN db
    THEN [code |-> 404, detail |-> <<>>, body |-> EmptyJson]
    ELSE IF db[j].status # "completed"
    THEN [code |-> 400, detail |-> <<"Status: ", db[j].status>>, body |-> EmptyJson]
    ELSE [code |-> 200, detail |-> <<>>, body |-> db[j].json_result]

\* analyze.py:151-165
GetRawResult(j) ==
    /\ GetRawResultResponse(j).code \in {200, 400, 404}
    /\ UNCHANGED vars

----------------------------------------------------------------------------
(* GET /api/analyses *)

\* the values of the limit parameter in the model; 20 is its default
Limits == {1, 20}

\* analyze.py:60, order_by(created_at.desc()): upload hands out the ids of
\* the model in the order of creation, so newest first is largest id first
RECURSIVE NewestFirst(_)
NewestFirst(ids) ==
    IF ids = {} THEN <<>>
    ELSE LET newest == CHOOSE x \in ids : \A y \in ids : y <= x
         IN  <<newest>> \o NewestFirst(ids \ {newest})

\* analyze.py:63-73, one entry of the list
ListEntry(j) ==
    [analysis_id |-> j,
     status |-> db[j].status,
     image_count |-> Len(db[j].image_paths),
     total_faces |-> Get(db[j].json_result, "total_faces", 0)]

\* analyze.py:60-75, the response of list_analyses
ListAnalysesResponse(limit) ==
    LET ids == NewestFirst(DOMAIN db)
        n == IF limit < Len(ids) THEN limit ELSE Len(ids)
    IN  [k \in 1..n |-> ListEntry(ids[k])]

\* analyze.py:54-75
ListAnalyses(limit) ==
    /\ Len(ListAnalysesResponse(limit)) <= limit
    /\ UNCHANGED vars

----------------------------------------------------------------------------
(* POST /api/chat and GET /api/summary/{analysis_id} *)

\* the questions of the model, and what LLMService.answer_question returns
\* for them: the text of the model, or its apology when the call raised
\* (llm_service.py:63-77)
Questions == {"how many faces?"}

Answers == {"answer"}

\* chat.py:28-37 and 104-113: what both handlers decide from the row
ChatDecision(j) ==
    IF j \notin DOMAIN db THEN 404
    ELSE IF db[j].status # "completed" THEN 400
    ELSE 200

\* chat.py:41-47, 115-118: the call of the LLM with the result that was read
LlmCall(kind, j, question) ==
    [kind |-> kind, analysis_id |-> j, json_data |-> db[j].json_result,
     question |-> question]

\* chat.py:18-47: the handler up to the call of answer_question.  The call
\* blocks the event loop, so no other handler runs until it returns; the
\* worker threads of the background tasks go on.
Chat(j, question) ==
    /\ llm_call = <<>>
    /\ IF ChatDecision(j) = 200
       THEN /\ Len(chat_logs) < MaxChats
            /\ llm_call' = <<LlmCall("chat", j, question)>>
            /\ UNCHANGED <<db, execs, pipeline, constructed, chat_logs>>
       ELSE UNCHANGED vars

\* chat.py:98-118: the handler up to the call of get_summary
GetSummary(j) ==
    /\ llm_call = <<>>
    /\ IF ChatDecision(j) = 200
       THEN /\ llm_call' = <<LlmCall("summary", j, "summary")>>
            /\ UNCHANGED <<db, execs, pipeline, constructed, chat_logs>>
       ELSE UNCHANGED vars

\* chat.py:50-54
NewChatLog(call, answer) ==
    [analysis_id |-> call.analysis_id, question |-> call.question, answer |-> answer]

\* chat.py:47-63 and 118-124: the LLM has answered; chat logs the question
\* and the answer, get_summary only returns
Answered(answer) ==
    /\ llm_call # <<>>
    /\ chat_logs' = IF llm_call[1].kind = "chat"
                    THEN Append(chat_logs, NewChatLog(llm_call[1], answer))
                    ELSE chat_logs
    /\ llm_call' = <<>>
    /\ UNCHANGED <<db, execs, pipeline, constructed>>

----------------------------------------------------------------------------

Next ==
    \/ \E files \in Uploads : UploadImages(files)
    \/ \E j \in JobIds : StartAnalysis(j)
    \/ \E e \in DOMAIN execs : Begin(e)
    \/ \E e \in DOMAIN execs :
          \E outs \in OutcomeSeqs(Len(execs[e].image_paths), pipeline) :
              RunPipeline(e, outs)
    \/ \E e \in DOMAIN execs : \E reason \in Reasons : Fail(e, reason)
    \/ \E j \in JobIds : GetResult(j)
    \/ \E j \in JobIds : GetRawResult(j)
    \/ \E limit \in Limits : ListAnalyses(limit)

Spec == Init /\ [][Next]_vars

\* the same program with analyze_images followed image by image
StepNext ==
    \/ \E files \in Uploads : UploadImages(files)
    \/ \E j \in JobIds : StartAnalysis(j)
    \/ \E e \in DOMAIN execs : Begin(e)
    \/ \E e \in DOMAIN execs : \E out \in Outcomes(pipeline) : ProcessImage(e, out)
    \/ \E e \in DOMAIN execs : Complete(e)
    \/ \E e \in DOMAIN execs : \E reason \in Reasons : Fail(e, reason)
    \/ \E j \in JobIds : GetResult(j)
    \/ \E j \in JobIds : GetRawResult(j)
    \/ \E limit \in Limits : ListAnalyses(limit)

StepSpec == Init /\ [][StepNext]_vars

\* one call of analyze_images followed image by image, from the start of the
\* first task of the first job on, with the results of AggregationOutcomes
AggregationInit ==
    \E n \in 1..MaxImages :
        LET paths == SavedPaths(1, [i \in 1..n |-> "a.JPG"]) IN
        /\ db = (1 :> MarkProcessing(NewAnalysis(paths)))
        /\ execs = <<[NewTask(1, paths) EXCEPT !.pc = "analyzing"]>>
        /\ pipeline = "none"
        /\ constructed = 0
        /\ chat_logs = <<>>
        /\ llm_call = <<>>

AggregationNext ==
    \/ \E e \in DOMAIN execs :
          \E out \in AggregationOutcomes(pipeline) : ProcessImage(e, out)
    \/ \E e \in DOMAIN execs : Complete(e)
    \/ \E j \in JobIds : GetResult(j)

AggregationSpec == AggregationInit /\ [][AggregationNext]_vars

\* the same call with the results of CountingOutcomes
CountingNext ==
    \/ \E e \in DOMAIN execs :
          \E out \in CountingOutcomes(pipeline) : ProcessImage(e, out)
    \/ \E e \in DOMAIN execs : Complete(e)
    \/ \E j \in JobIds : GetResult(j)

CountingSpec == AggregationInit /\ [][CountingNext]_vars

\* the uploads of the specifications with the chat handlers and with the
\* lazy load: one image
ChatUploads == {<<"a.JPG">>}

\* the uploads of the specification that follows the manifest: two images
ManifestUploads == {<<"b.png", "a.JPG">>}

\* the results of an image in that specification: its file is missing, or
\* it is processed
ManifestOutcomes ==
    {Outcome("missing", <<>>)} \cup {Outcome("ok", b) : b \in FaceBatches}

\* the program with the handlers that read an analysis, the tasks followed
\* image by image
ManifestNext ==
    \/ llm_call = <<>> /\ \E files \in ManifestUploads : UploadImages(files)
    \/ llm_call = <<>> /\ \E j \in JobIds : StartAnalysis(j)
    \/ llm_call = <<>> /\ \E j \in JobIds : GetResult(j)
    \/ \E e \in DOMAIN execs : Begin(e)
    \/ \E e \in DOMAIN execs : \E out \in ManifestOutcomes : ProcessImage(e, out)
    \/ \E e \in DOMAIN execs : Complete(e)
    \/ \E e \in DOMAIN execs : \E reason \in Reasons : Fail(e, reason)
    \/ \E j \in JobIds : \E question \in Questions : Chat(j, question)
    \/ \E j \in JobIds : GetSummary(j)
    \/ \E answer \in Answers : Answered(answer)

ManifestSpec == Init /\ [][ManifestNext]_vars

\* the program with the lazy load of the pipeline followed step by step in
\* the worker threads of the tasks
EngineNext ==
    \/ \E files \in ChatUploads : UploadImages(files)
    \/ \E j \in JobIds : StartAnalysis(j)
    \/ \E e \in DOMAIN execs : Begin(e)
    \/ \E e \in DOMAIN execs : EnterPipeline(e)
    \/ \E e \in DOMAIN execs : FinishLoading(e)
    \/ \E e \in DOMAIN execs : LoadingFails(e)
    \/ \E e \in DOMAIN execs : \E out \in Outcomes(pipeline) : ProcessLoaded(e, out)
    \/ \E e \in DOMAIN execs : Complete(e)
    \/ \E j \in JobIds : GetResult(j)

EngineSpec == Init /\ [][EngineNext]_vars

\* the program with the chat handlers.  A handler is a step of the event
\* loop, which is blocked while a request waits for the LLM.
ChatNext ==
    \/ llm_call = <<>> /\ \E files \in ChatUploads : UploadImages(files)
    \/ llm_call = <<>> /\ \E j \in JobIds : StartAnalysis(j)
    \/ llm_call = <<>> /\ \E j \in JobIds : GetResult(j)
    \/ \E e \in DOMAIN execs : Begin(e)
    \/ \E e \in DOMAIN execs :
          \E outs \in OutcomeSeqs(Len(execs[e].image_paths), pipeline) :
              RunPipeline(e, outs)
    \/ \E e \in DOMAIN execs : \E reason \in Reasons : Fail(e, reason)
    \/ \E j \in JobIds : \E question \in Questions : Chat(j, question)
    \/ \E j \in JobIds : GetSummary(j)
    \/ \E answer \in Answers : Answered(answer)

ChatSpec == Init /\ [][ChatNext]_vars

\* the program up to the start of the tasks, with uploads of two allowed
\* file names
UploadNext ==
    \/ \E files \in NamedUploads : UploadImages(files)
    \/ \E j \in JobIds : StartAnalysis(j)
    \/ \E e \in DOMAIN execs : Begin(e)
    \/ \E j \in JobIds : GetResult(j)

UploadSpec == Init /\ [][UploadNext]_vars

\* A worker thread runs its task on: every step of a task that can be
\* taken is taken eventually (each engine call returns or raises).
TaskStep(e) ==
    /\ e \in DOMAIN execs
    /\ \/ Begin(e)
       \/ \E outs \in OutcomeSeqs(Len(execs[e].image_paths), pipeline) :
             RunPipeline(e, outs)

FairSpec == Spec /\ \A e \in 1..MaxExec : WF_vars(TaskStep(e))

----------------------------------------------------------------------------
(* Vocabulary of the properties *)

\* the tasks of job j that were scheduled and have not written a final state
InFlight(j) == {e \in DOMAIN execs : execs[e].job = j /\ execs[e].pc # "done"}

\* the task that a step has just scheduled
Scheduled(j) ==
    /\ Len(execs') = Len(execs) + 1
    /\ execs'[Len(execs')].job = j

Terminal == {"completed", "failed"}

\* the stored result is an aggregate
HasAggregate(analysis) == "total_faces" \in DOMAIN analysis.json_result

\* the faces the engine returned for the images that did not fail
RECURSIVE FacesReturned(_)
FacesReturned(outs) ==
    IF outs = <<>> THEN 0
    ELSE (IF Head(outs).kind = "ok" THEN Len(Head(outs).faces) ELSE 0)
            + FacesReturned(Tail(outs))

\* the per-image results of the images that were processed without error
ProcessedOnly(outs) == SelectSeq(outs, LAMBDA out : out.kind = "ok")

\* the engine was asked for and could not be initialized during the call
InitNeverSucceeded(outs) ==
    /\ \E k \in DOMAIN outs : outs[k].kind = "initfail"
    /\ \A k \in DOMAIN outs : outs[k].kind \in {"missing", "initfail"}

\* a failure reason is stored on the record (analyze.py:48)
HasFailureReason(analysis) == "error" \in DOMAIN analysis.json_result

\* the texts a response of the status query carries
StatusQueryTexts(j) ==
    {GetResultResponse(j).status}
        \cup {GetResultResponse(j).message[k] : k \in DOMAIN GetResultResponse(j).message}
        \cup {GetRawResultResponse(j).detail[k] : k \in DOMAIN GetRawResultResponse(j).detail}
        \cup {GetRawResultResponse(j).body[k] : k \in DOMAIN GetRawResultResponse(j).body \cap {"error"}}

\* the faces of a sequence of per-image results: image k, face m of the
\* images whose processing returned
FacePositions(outs) ==
    {p \in (DOMAIN outs) \X UNION {DOMAIN outs[k].faces : k \in DOMAIN outs} :
        outs[p[1]].kind = "ok" /\ p[2] \in DOMAIN outs[p[1]].faces}

FaceAt(outs, p) == outs[p[1]].faces[p[2]]

GenderKeys == {"male", "female"}

AgeGroupKeys == {"10s", "20s", "30s", "40_plus"}

\* the sum of the counts of a dictionary of counts
RECURSIVE SumOver(_, _)
SumOver(counts, keys) ==
    IF keys = {} THEN 0
    ELSE LET k == CHOOSE x \in keys : TRUE
         IN  counts[k] + SumOver(counts, keys \ {k})

\* the per-image results outs with the images in the order perm
Reordered(outs, perm) == [k \in DOMAIN outs |-> outs[perm[k]]]

\* the counts of an aggregate are consistent: none is negative and neither
\* the genders nor the age groups add up to more than the faces
CountsBounded(agg) ==
    /\ agg.total_faces >= 0
    /\ \A g \in GenderKeys : agg.gender[g] >= 0
    /\ \A b \in AgeGroupKeys : agg.age_group[b] >= 0
    /\ SumOver(agg.gender, GenderKeys) <= agg.total_faces
    /\ SumOver(agg.age_group, AgeGroupKeys) <= agg.total_faces

\* task e leaves the pipeline run in this step
Returns(e) == execs[e].pc = "analyzing" /\ execs'[e].pc = "done"

----------------------------------------------------------------------------
(* Properties *)

\* C1: for every job at most one execution is in flight at any time
\* (scheduled by an accepted start and not yet having written completed or
\* failed), so no two overlapping executions write the job record.
C1_AtMostOneInFlight ==
    \A j \in JobIds : Cardinality(InFlight(j)) <= 1

\* C2: of the start calls made on a fresh Pending job before its background
\* execution has run, exactly one is accepted: a Pending job never has two
\* scheduled executions waiting.
C2_OneStartAccepted ==
    \A j \in DOMAIN db :
        db[j].status = "pending" =>
            Cardinality({e \in InFlight(j) : execs[e].pc = "scheduled"}) <= 1

\* C3: when start accepts a job and schedules its execution, the stored
\* status of the job is Processing in the state in which start returns.
C3_ProcessingWhenAccepted ==
    [][\A j \in JobIds : Scheduled(j) => db'[j].status = "processing"]_vars

\* C4: every change of a stored status is Pending->Processing,
\* Failed->Processing, Processing->Completed or Processing->Failed.
C4_Transitions ==
    [][\A j \in DOMAIN db :
        db'[j].status # db[j].status =>
            <<db[j].status, db'[j].status>> \in
                { <<"pending", "processing">>, <<"failed", "processing">>,
                  <<"processing", "completed">>, <<"processing", "failed">> }]_vars

\* C5: Completed is absorbing: once the stored status of a job is Completed,
\* every later step leaves it Completed with the same aggregate.
C5_CompletedAbsorbing ==
    [][\A j \in DOMAIN db :
        db[j].status = "completed" =>
            /\ db'[j].status = "completed"
            /\ db'[j].json_result = db[j].json_result]_vars

\* C6: start on a Completed job reports the completed status and is a no-op:
\* it schedules no execution, leaves the pipeline alone and leaves the job
\* record (status, aggregate, updated_at) as it was.
C6_StartOnCompletedNoOp ==
    /\ [](\A j \in DOMAIN db :
            db[j].status = "completed" => StartResponse(j) = Response(200, "completed"))
    /\ [][\A j \in DOMAIN db :
            (db[j].status = "completed" /\ StartAnalysis(j)) => UNCHANGED vars]_vars

\* a job is Completed with nothing in flight, so that start on it was or can
\* be called at rest
C6_Witness ==
    \E j \in DOMAIN db :
        /\ db[j].status = "completed"
        /\ InFlight(j) = {}
        /\ StartResponse(j).status = "completed"

\* C7: an execution during which the vision engine could not be initialized
\* (an initialization was tried and none succeeded) ends Failed, never
\* Completed.
C7_InitFailureFails ==
    [][\A e \in DOMAIN execs :
        Returns(e) =>
            \A outs \in OutcomeSeqs(Len(execs[e].image_paths), pipeline) :
                (InitNeverSucceeded(outs) /\ RunPipeline(e, outs)) =>
                    /\ db'[execs[e].job].status = "failed"
                    /\ "error" \in DOMAIN db'[execs[e].job].json_result]_vars

\* C8: per-image failures never fail the job.  For an execution in the loop
\* and every outcome of its images, whatever subset of them is missing or
\* raises (the engine failing to load, an inference error), the whole manifest
\* included, analyze_images returns without raising, and the record stored
\* from its result is Completed with total_faces equal to the number of faces
\* the engine returned for the other images.  And every step in which an
\* execution leaves the loop, unless an exception from outside the loop ends
\* it, is such a run of the pipeline and stores exactly that.
C8_PerImageFailuresTolerated ==
    /\ [](\A e \in DOMAIN execs :
            execs[e].pc = "analyzing" =>
                \A outs \in OutcomeSeqs(Len(execs[e].image_paths), pipeline) :
                    LET run == analyze_images(pipeline, outs)
                        stored == StoreResult(db[execs[e].job], run.aggregated)
                    IN  /\ ~run.raised
                        /\ stored.status = "completed"
                        /\ HasAggregate(stored)
                        /\ stored.json_result.total_faces = FacesReturned(outs))
    /\ [][\A e \in DOMAIN execs :
            Returns(e) =>
                \/ \E reason \in Reasons : Fail(e, reason)
                \/ /\ db'[execs[e].job].status = "completed"
                   /\ \E outs \in OutcomeSeqs(Len(execs[e].image_paths), pipeline) :
                        /\ RunPipeline(e, outs)
                        /\ db'[execs[e].job].json_result.total_faces = FacesReturned(outs)]_vars

\* a job of two images is Completed with the faces of exactly one image: the
\* other image was missing or raised
C8_Witness ==
    \E j \in DOMAIN db :
        /\ db[j].status = "completed"
        /\ Len(db[j].image_paths) = 2
        /\ db[j].json_result.total_faces = 2

\* C9: a job with an accepted start eventually has no execution in flight
\* and is Completed or Failed.
C9_EventuallyTerminal ==
    \A j \in JobIds :
        (InFlight(j) # {}) ~>
            (InFlight(j) = {} /\ j \in DOMAIN db /\ db[j].status \in Terminal)

\* a job whose accepted start has run to its end
C9_Witness ==
    \E e \in DOMAIN execs :
        /\ execs[e].pc = "done"
        /\ InFlight(execs[e].job) = {}
        /\ db[execs[e].job].status \in Terminal

\* C10: an aggregate is stored on a job, and returned by the status query,
\* if and only if the job is Completed.
C10_AggregateIffCompleted ==
    \A j \in DOMAIN db :
        /\ HasAggregate(db[j]) <=> db[j].status = "completed"
        /\ GetResultResponse(j).result # <<>> <=> db[j].status = "completed"

\* C11: a failure reason is stored on a job record if and only if the status
\* of the job is Failed; a Failed job that is restarted carries no reason
\* while it is Processing or after it is Completed.
C11_FailureReasonIffFailed ==
    \A j \in DOMAIN db : HasFailureReason(db[j]) <=> db[j].status = "failed"

\* C12: for every Failed job the status query returns the recorded failure
\* reason, and the response of start does not carry it.
C12_StatusQueryReturnsReason ==
    \A j \in DOMAIN db :
        db[j].status = "failed" =>
            /\ HasFailureReason(db[j])
            /\ db[j].json_result.error \in StatusQueryTexts(j)
            /\ db[j].json_result.error # StartResponse(j).status

\* C13: an upload of a non-empty manifest of allowed images adds one job
\* under an id no job had, Pending, without an aggregate, whose manifest is
\* the submitted files in the submitted order; the response names that job.
C13_CreateStoresManifest ==
    [][\A files \in NamedUploads :
        (~UploadRejected(files) /\ UploadImages(files)) =>
            \E id \in DOMAIN db' \ DOMAIN db :
                /\ DOMAIN db' = DOMAIN db \cup {id}
                /\ UploadResponse(files) = [code |-> 200, analysis_id |-> id,
                                            image_count |-> Len(files)]
                /\ db'[id].status = "pending"
                /\ ~HasAggregate(db'[id])
                /\ Len(db'[id].image_paths) = Len(files)
                /\ \A i \in DOMAIN files : FileName(db'[id].image_paths[i]) = files[i]
                /\ \A j \in DOMAIN db : db'[j] = db[j]]_vars

\* a job was created from two different files, later name first
C13_Witness ==
    \E j \in DOMAIN db :
        /\ db[j].status = "pending"
        /\ Len(db[j].image_paths) = 2
        /\ FileName(db[j].image_paths[1]) = "b.png"
        /\ FileName(db[j].image_paths[2]) = "a.JPG"

\* C14: an upload that is empty or has a file that is not an allowed image is
\* answered 400 and changes nothing, no job is created; so every stored job
\* has a non-empty manifest and start never answers 'no images'.
C14_InvalidManifestRejected ==
    /\ [](\A j \in DOMAIN db :
            /\ db[j].image_paths # <<>>
            /\ StartDecision(db[j]) # "noimages")
    /\ [](\A files \in Uploads :
            UploadRejected(files) <=>
                (files = <<>> \/ \E i \in DOMAIN files : files[i] = "c.txt"))
    /\ [][\A files \in Uploads :
            (UploadRejected(files) /\ UploadImages(files)) =>
                /\ UploadResponse(files).code = 400
                /\ UNCHANGED vars]_vars

\* a job is stored and another could be created, and both an empty upload
\* and an upload with a file that is not an image are answered 400
C14_Witness ==
    /\ DOMAIN db # {}
    /\ FreshId \in JobIds
    /\ UploadResponse(<<>>).code = 400
    /\ \E files \in Uploads : files # <<>> /\ UploadResponse(files).code = 400

\* C15: for every sequence of per-image results, at every image of the loop
\* and at its end, total_faces is the number of faces returned, gender[g] the
\* number of faces whose label in lower case is g, age_group[b] the number of
\* faces whose bucket is b, with exactly the keys male, female and 10s, 20s,
\* 30s, 40_plus; a face with another label adds to total_faces only.  The
\* whole call returns that aggregate and it is what is stored.
C15_AggregateCounts ==
    /\ [](\A e \in DOMAIN execs :
            execs[e].pc = "analyzing" =>
                LET agg == execs[e].aggregated
                    outs == execs[e].outs
                    faces == FacePositions(outs)
                IN  /\ agg.total_faces = Cardinality(faces)
                    /\ DOMAIN agg.gender = GenderKeys
                    /\ \A g \in GenderKeys :
                          agg.gender[g] =
                            Cardinality({p \in faces : Lower(FaceAt(outs, p).gender) = g})
                    /\ DOMAIN agg.age_group = AgeGroupKeys
                    /\ \A b \in AgeGroupKeys :
                          agg.age_group[b] =
                            Cardinality({p \in faces : FaceAt(outs, p).age_group = b})
                    /\ analyze_images("none", outs).aggregated = agg)
    /\ [][\A e \in DOMAIN execs :
            Complete(e) => db'[execs[e].job].json_result = execs[e].aggregated]_vars

\* both images of a manifest returned two faces: two are male, one of them
\* labelled Male, two have a gender that is not counted, two an age bucket
\* that is not counted
C15_Witness ==
    \E e \in DOMAIN execs :
        /\ execs[e].pc = "analyzing"
        /\ execs[e].i > Len(execs[e].image_paths)
        /\ Len(execs[e].outs) = 2
        /\ execs[e].aggregated.total_faces = 4
        /\ execs[e].aggregated.gender["male"] = 2
        /\ execs[e].aggregated.gender["female"] = 0
        /\ SumOver(execs[e].aggregated.age_group, AgeGroupKeys) = 2

\* C16: the aggregate does not depend on the order of the images: for the
\* results of the images a call has seen, failures included, analyze_images
\* returns the same aggregate for every permutation of them, the one the
\* loop has accumulated.
C16_OrderIndependent ==
    \A e \in DOMAIN execs :
        execs[e].pc = "analyzing" =>
            \A perm \in Permutations(DOMAIN execs[e].outs) :
                /\ ~analyze_images("none", Reordered(execs[e].outs, perm)).raised
                /\ analyze_images("none", Reordered(execs[e].outs, perm)).aggregated
                      = execs[e].aggregated

\* a call has seen two images with different results: one raised and the
\* other returned faces, in either order
C16_Witness ==
    \E e \in DOMAIN execs :
        /\ execs[e].pc = "analyzing"
        /\ Len(execs[e].outs) = 2
        /\ execs[e].outs[1].kind = "ok"
        /\ execs[e].outs[1].faces # <<>>
        /\ execs[e].outs[2].kind = "error"
        /\ execs[e].aggregated.total_faces > 0

\* C17: at every step of the aggregation, after every image and after every
\* face of the image that comes next, and in the aggregate that is stored,
\* no count is negative, male + female <= total_faces and the four age
\* groups add up to at most total_faces; a sum equals total_faces when every
\* face counted so far has a label of that kind that is counted.
C17_CountsBounded ==
    /\ \A e \in DOMAIN execs :
          execs[e].pc = "analyzing" =>
              LET agg == execs[e].aggregated
                  outs == execs[e].outs
                  faces == FacePositions(outs)
              IN  /\ CountsBounded(agg)
                  /\ (\A p \in faces : Lower(FaceAt(outs, p).gender) \in GenderKeys)
                        => SumOver(agg.gender, GenderKeys) = agg.total_faces
                  /\ (\A p \in faces : FaceAt(outs, p).age_group \in AgeGroupKeys)
                        => SumOver(agg.age_group, AgeGroupKeys) = agg.total_faces
                  /\ \A out \in AggregationOutcomes(pipeline) :
                        \A n \in 0..Len(out.faces) :
                            CountsBounded(CountFaces(agg, SubSeq(out.faces, 1, n)))
    /\ \A j \in DOMAIN db :
          HasAggregate(db[j]) => CountsBounded(db[j].json_result)

\* after a first image whose two faces have counted labels, the second image
\* has returned a face whose gender is not counted and a face whose age
\* bucket is not counted: both sums are below total_faces
C17_Witness ==
    \E e \in DOMAIN execs :
        /\ execs[e].pc = "analyzing"
        /\ Len(execs[e].outs) = 2
        /\ execs[e].outs[1].faces = <<Face("female", "20s"), Face("Female", "30s")>>
        /\ execs[e].aggregated.total_faces = 4
        /\ SumOver(execs[e].aggregated.gender, GenderKeys) = 3
        /\ SumOver(execs[e].aggregated.age_group, AgeGroupKeys) = 3

\* C18: start schedules an execution exactly when the status it reads is
\* Pending or Failed, so a Failed job can be started again; on a Processing
\* job it answers 400 and on a Completed job it reports completed, and in
\* both cases schedules nothing.  start never writes the job record.
C18_StartSchedulesPendingOrFailed ==
    /\ [](\A j \in DOMAIN db :
            /\ db[j].status \in {"pending", "failed"}
                  => StartResponse(j) = Response(200, "processing")
            /\ db[j].status = "processing" => StartResponse(j) = Response(400, "")
            /\ db[j].status = "completed" => StartResponse(j) = Response(200, "completed"))
    /\ [][\A j \in DOMAIN db :
            StartAnalysis(j) =>
                /\ db' = db
                /\ pipeline' = pipeline
                /\ constructed' = constructed
                /\ IF db[j].status \in {"pending", "failed"}
                   THEN /\ Scheduled(j)
                        /\ SubSeq(execs', 1, Len(execs)) = execs
                        /\ execs'[Len(execs')].pc = "scheduled"
                        /\ execs'[Len(execs')].image_paths = db[j].image_paths
                   ELSE execs' = execs]_vars

\* a job is Completed after four writes of its row by two tasks: processing,
\* failed, processing again after the second start, completed
C18_Witness ==
    \E j \in DOMAIN db :
        /\ db[j].status = "completed"
        /\ db[j].updated_at = 4
        /\ InFlight(j) = {}
        /\ Cardinality({e \in DOMAIN execs : execs[e].job = j}) = 2

\* C19: start and the status queries on an id that no job has answer 404,
\* create no job, schedule no execution and leave every job record as it is.
C19_UnknownIdNotFound ==
    /\ [](\A j \in JobIds \ DOMAIN db :
            /\ StartResponse(j).code = 404
            /\ GetResultResponse(j).code = 404
            /\ GetRawResultResponse(j).code = 404)
    /\ [][\A j \in JobIds \ DOMAIN db :
            (StartAnalysis(j) \/ GetResult(j) \/ GetRawResult(j)) => UNCHANGED vars]_vars

\* job 1 is being processed and job 2 does not exist
C19_Witness ==
    /\ DOMAIN db = {1}
    /\ db[1].status = "processing"
    /\ StartResponse(2).code = 404
    /\ GetResultResponse(2).code = 404

\* C20: get_result, get_raw_result and list_analyses are pure reads: a call
\* leaves every job record (status, result, manifest, timestamps), the tasks
\* and the pipeline as they are.
C20_ReadsArePure ==
    [][( \/ \E j \in JobIds : GetResult(j)
         \/ \E j \in JobIds : GetRawResult(j)
         \/ \E limit \in Limits : ListAnalyses(limit) ) => UNCHANGED vars]_vars

\* the queries have something to read: a Completed job whose result both
\* result queries return, and two jobs for the list to cut at its limit
C20_Witness ==
    /\ \E j \in DOMAIN db :
          /\ db[j].status = "completed"
          /\ GetResultResponse(j).result # <<>>
          /\ GetRawResultResponse(j).code = 200
    /\ Len(ListAnalysesResponse(20)) = 2
    /\ Len(ListAnalysesResponse(1)) = 1
    /\ ListAnalysesResponse(1)[1].analysis_id = 2

\* C21: chat and summary are served only for Completed jobs: for a Pending,
\* Processing or Failed job both are rejected, call no LLM and add no chat
\* log entry, and every chat log entry is written for a job that is
\* Completed when the entry is written.
C21_ChatOnlyWhenCompleted ==
    /\ [][\A j \in DOMAIN db :
            (/\ db[j].status # "completed"
             /\ \/ \E question \in Questions : Chat(j, question)
                \/ GetSummary(j)) =>
                /\ ChatDecision(j) = 400
                /\ UNCHANGED vars]_vars
    /\ [][chat_logs' # chat_logs =>
            /\ Len(chat_logs') = Len(chat_logs) + 1
            /\ db[chat_logs'[Len(chat_logs')].analysis_id].status = "completed"]_vars

\* C22: start answers before the pipeline runs: the request neither calls the
\* engine nor writes a status or a result, the task it adds has not begun,
\* and its response is determined by the status of the job when it is called.
C22_StartReturnsBeforePipeline ==
    /\ [](\A j, k \in DOMAIN db :
            db[j].status = db[k].status => StartResponse(j) = StartResponse(k))
    /\ [][\A j \in DOMAIN db :
            StartAnalysis(j) =>
                /\ \A k \in DOMAIN db :
                      /\ db'[k].status = db[k].status
                      /\ db'[k].json_result = db[k].json_result
                /\ pipeline' = pipeline
                /\ constructed' = constructed
                /\ \A e \in DOMAIN execs : execs'[e] = execs[e]
                /\ \A e \in DOMAIN execs' \ DOMAIN execs :
                      /\ execs'[e].pc = "scheduled"
                      /\ execs'[e].i = 1
                      /\ execs'[e].outs = <<>>
                      /\ execs'[e].aggregated = NewAggregated]_vars

\* start has answered for a Failed job: the task is scheduled and has not
\* begun, the row is still Failed, and the engine was never constructed
C22_Witness ==
    \E e \in DOMAIN execs :
        /\ execs[e].pc = "scheduled"
        /\ db[execs[e].job].status = "failed"
        /\ StartResponse(execs[e].job) = Response(200, "processing")
        /\ constructed = 0

C24_UpdatedAtRefreshed ==
    [][\A j \in DOMAIN db :
        /\ db'[j].created_at = db[j].created_at
        /\ db'[j].updated_at >= db[j].updated_at
        /\ db'[j].status # db[j].status =>
              /\ db'[j].status \in {"processing", "completed", "failed"}
              /\ db'[j].updated_at > db[j].updated_at
              /\ db'[j].updated_at >= UtcNow(db[j])]_vars

\* a job has been set to Processing and then to Failed: two writes after its
\* creation
C24_Witness ==
    \E j \in DOMAIN db :
        /\ db[j].status = "failed"
        /\ db[j].created_at = 0
        /\ db[j].updated_at = 2

\* C25: the id and the manifest of a job, order included, never change after
\* the job is created: no start, task, read or chat changes them, and every
\* task works on the stored manifest, one image after the other from the
\* first to the last.
C25_ManifestImmutable ==
    /\ [](\A e \in DOMAIN execs :
            /\ execs[e].job \in DOMAIN db
            /\ execs[e].image_paths = db[execs[e].job].image_paths
            /\ execs[e].pc = "analyzing" =>
                  /\ execs[e].i \in 1..(Len(execs[e].image_paths) + 1)
                  /\ Len(execs[e].outs) = execs[e].i - 1)
    /\ [][/\ \A j \in DOMAIN db :
             /\ j \in DOMAIN db'
             /\ db'[j].image_paths = db[j].image_paths
          /\ \A e \in DOMAIN execs :
             /\ execs'[e].job = execs[e].job
             /\ execs'[e].image_paths = execs[e].image_paths
             /\ (execs[e].pc = "analyzing" /\ execs'[e].pc = "analyzing"
                   /\ execs'[e] # execs[e]) =>
                   /\ execs'[e].i = execs[e].i + 1
                   /\ Len(execs'[e].outs) = execs[e].i
             /\ Complete(e) =>
                   Len(execs[e].outs) = Len(db[execs[e].job].image_paths)]_vars

\* a task has gone through a manifest of two images that was uploaded as
\* b.png, a.JPG, after a chat about another job was logged
C25_Witness ==
    \E e \in DOMAIN execs :
        /\ execs[e].pc = "analyzing"
        /\ execs[e].i = 3
        /\ FileName(db[execs[e].job].image_paths[1]) = "b.png"
        /\ FileName(db[execs[e].job].image_paths[2]) = "a.JPG"
        /\ chat_logs # <<>>
        /\ chat_logs[1].analysis_id # execs[e].job

\* C26: jobs are isolated.  A step of a task, or a request for a job, leaves
\* the record of every other job as it is; a task counts into its own
\* accumulator only, and the aggregate it stores is the count of the results
\* of the images of its own manifest.
C26_JobsIsolated ==
    /\ [](\A e \in DOMAIN execs :
            execs[e].pc = "analyzing" =>
                execs[e].aggregated = analyze_images("none", execs[e].outs).aggregated)
    /\ [][/\ \A a, b \in DOMAIN db :
             a # b => (db'[a] = db[a] \/ db'[b] = db[b])
          /\ \A e \in DOMAIN execs :
             execs'[e] # execs[e] =>
                 /\ \A b \in DOMAIN db \ {execs[e].job} : db'[b] = db[b]
                 /\ \A f \in DOMAIN execs \ {e} : execs'[f] = execs[f]
                 /\ Complete(e) =>
                       db'[execs[e].job].json_result
                           = analyze_images("none", execs[e].outs).aggregated
          /\ \A j \in JobIds :
             (StartAnalysis(j) \/ GetResult(j) \/ GetSummary(j)
                 \/ \E question \in Questions : Chat(j, question)) => db' = db]_vars

\* the tasks of two jobs are in their loops at the same time: one has counted
\* the two faces of its first image, the other has skipped its first image
C26_Witness ==
    \E e, f \in DOMAIN execs :
        /\ execs[e].job # execs[f].job
        /\ execs[e].pc = "analyzing"
        /\ execs[f].pc = "analyzing"
        /\ execs[e].i = 2
        /\ execs[f].i = 2
        /\ execs[e].aggregated.total_faces = 2
        /\ execs[f].aggregated.total_faces = 0

\* C27: whenever the status of a job is Processing, a task of that job is in
\* its run (it has marked the row and has not returned), and the job leaves
\* Processing for Completed or Failed: no state has a Processing job that no
\* task is left to finish.
C27_ProcessingHasExecution ==
    /\ [](\A j \in DOMAIN db :
            db[j].status = "processing" =>
                \E e \in InFlight(j) : execs[e].pc = "analyzing")
    /\ \A j \in JobIds :
            (j \in DOMAIN db /\ db[j].status = "processing") ~>
                (j \in DOMAIN db /\ db[j].status \in Terminal)

\* a Failed job was started again and is Processing for the second time: the
\* task of the first start has returned and the task of the second is in its
\* run
C27_Witness ==
    \E j \in DOMAIN db :
        /\ db[j].status = "processing"
        /\ db[j].updated_at = 3
        /\ Cardinality(InFlight(j)) = 1
        /\ \E e \in DOMAIN execs : execs[e].job = j /\ execs[e].pc = "done"

\* C28: the engine is initialized at most once in the process, however many
\* jobs and images there are and also when tasks run at the same time: at
\* most one ImagePipeline is constructed, and once _pipeline is set no step
\* constructs another.
C28_EngineInitializedOnce ==
    /\ [](constructed <= 1)
    /\ [][pipeline = "loaded" => constructed' = constructed]_vars

====
